---------------------------- MODULE Spec2Model ----------------------------
(***************************************************************************)
(* Model of the Harmonic History Timeline validator:                       *)
(*   src/normalization.py      the forgiving normalization layer           *)
(*   src/scripts/validator.py  the cross-table validation run (main)       *)
(*                                                                         *)
(* Strings are TLA+ strings; a character is a string of length one.  The   *)
(* module text is ASCII, so the non-ASCII dash code points of the source   *)
(* are written with the ASCII stand-ins named below (FIGURE_DASH, EN_DASH, *)
(* EM_DASH, MINUS_SIGN, NB_HYPHEN); no input uses a stand-in for anything  *)
(* else.                                                                   *)
(***************************************************************************)
EXTENDS Integers, Sequences, FiniteSets, TLC

(***************************************************************************)
(* Characters and the Python string primitives the source relies on.       *)
(***************************************************************************)
HYPHEN      == "-"   \* U+002D hyphen-minus
FIGURE_DASH == "{"   \* stands for U+2012 figure dash
EN_DASH     == "="   \* stands for U+2013 en dash
EM_DASH     == "}"   \* stands for U+2014 em dash
MINUS_SIGN  == "~"   \* stands for U+2212 minus sign
NB_HYPHEN   == "|"   \* stands for U+2011 non-breaking hyphen

UPPER == "ABCDEFGHIJKLMNOPQRSTUVWXYZ"
LOWER == "abcdefghijklmnopqrstuvwxyz"
DIGITS == "0123456789"

Ch(s, k) == SubSeq(s, k, k)

Chars(s) == { Ch(s, k) : k \in 1..Len(s) }

\* regex class \s and str.strip(): the whitespace of the input alphabet
WS == { " ", "\t" }

LowerMap == [ c \in Chars(UPPER) |-> Ch(LOWER, CHOOSE k \in 1..26 : Ch(UPPER, k) = c) ]

DigitVal == [ c \in Chars(DIGITS) |-> (CHOOSE k \in 1..10 : Ch(DIGITS, k) = c) - 1 ]

IsDigit(c) == c \in DOMAIN DigitVal

\* str.lower()
RECURSIVE lower(_)
lower(s) ==
    IF s = "" THEN ""
    ELSE (IF Head(s) \in DOMAIN LowerMap THEN LowerMap[Head(s)] ELSE Head(s))
         \o lower(Tail(s))

RECURSIVE lstrip(_)
lstrip(s) == IF s # "" /\ Head(s) \in WS THEN lstrip(Tail(s)) ELSE s

RECURSIVE rstrip(_)
rstrip(s) ==
    IF s # "" /\ Ch(s, Len(s)) \in WS THEN rstrip(SubSeq(s, 1, Len(s) - 1)) ELSE s

\* str.strip()
strip(s) == rstrip(lstrip(s))

\* str.split(sep) for a one-character separator: the sequence of parts
RECURSIVE split(_, _)
split(s, sep) ==
    IF \A k \in 1..Len(s) : Ch(s, k) # sep THEN << s >>
    ELSE LET k == CHOOSE j \in 1..Len(s) :
                     Ch(s, j) = sep /\ \A h \in 1..(j - 1) : Ch(s, h) # sep
         IN  << SubSeq(s, 1, k - 1) >> \o split(SubSeq(s, k + 1, Len(s)), sep)

\* "sub in s" for a one-character sub
Contains(s, c) == \E k \in 1..Len(s) : Ch(s, k) = c

RECURSIVE Pow10(_)
Pow10(n) == IF n <= 0 THEN 1 ELSE 10 * Pow10(n - 1)

\* the digits of s, underscores dropped, as a natural number
RECURSIVE DigitsVal(_, _)
DigitsVal(s, acc) ==
    IF s = "" THEN acc
    ELSE IF Head(s) = "_" THEN DigitsVal(Tail(s), acc)
    ELSE DigitsVal(Tail(s), 10 * acc + DigitVal[Head(s)])

\* a digit string as int() and float() read one: digits, with single
\* underscores allowed between digits
IsDigitPart(s) ==
    /\ s # ""
    /\ \A k \in 1..Len(s) : IsDigit(Ch(s, k)) \/ Ch(s, k) = "_"
    /\ IsDigit(Ch(s, 1)) /\ IsDigit(Ch(s, Len(s)))
    /\ \A k \in 1..(Len(s) - 1) : ~(Ch(s, k) = "_" /\ Ch(s, k + 1) = "_")

HasSign(s) == s # "" /\ Head(s) \in { "+", "-" }

Unsigned(s) == IF HasSign(s) THEN Tail(s) ELSE s

\* int(s) of a str: surrounding whitespace and one sign are accepted;
\* ok = FALSE stands for the ValueError
ParseInt(s) ==
    LET t == strip(s)
        b == Unsigned(t)
    IN  IF IsDigitPart(b)
        THEN [ ok |-> TRUE,
               val |-> IF HasSign(t) /\ Head(t) = "-" THEN 0 - DigitsVal(b, 0)
                       ELSE DigitsVal(b, 0) ]
        ELSE [ ok |-> FALSE, val |-> 0 ]

(***************************************************************************)
(* float(s).  A float is [kind, neg, m, d]: kind "fin" is the number       *)
(* (IF neg THEN -1 ELSE 1) * m / 10^d, kind "inf" an infinity of that      *)
(* sign, kind "nan" a NaN; kind "err" stands for the ValueError.           *)
(***************************************************************************)
Fin(neg, m, d) == [ kind |-> "fin", neg |-> neg /\ m # 0, m |-> m, d |-> d ]

FloatErr == [ kind |-> "err", neg |-> FALSE, m |-> 0, d |-> 0 ]

\* the mantissa "ddd", "ddd.", ".ddd" or "ddd.ddd" as [ok, m, d]
ParseMantissa(b) ==
    LET p == split(b, ".")
    IN  IF Len(p) = 1
        THEN [ ok |-> IsDigitPart(b), m |-> IF IsDigitPart(b) THEN DigitsVal(b, 0) ELSE 0,
               d |-> 0 ]
        ELSE IF Len(p) = 2
                /\ (p[1] = "" \/ IsDigitPart(p[1]))
                /\ (p[2] = "" \/ IsDigitPart(p[2]))
                /\ ~(p[1] = "" /\ p[2] = "")
        THEN [ ok |-> TRUE, m |-> DigitsVal(p[1] \o p[2], 0),
               d |-> Cardinality({ k \in 1..Len(p[2]) : IsDigit(Ch(p[2], k)) }) ]
        ELSE [ ok |-> FALSE, m |-> 0, d |-> 0 ]

ParseFloat(s) ==
    LET t   == strip(s)
        neg == HasSign(t) /\ Head(t) = "-"
        b   == lower(Unsigned(t))
        e   == split(b, "e")
        man == ParseMantissa(e[1])
        ex  == IF Len(e) = 2 THEN ParseInt(e[2]) ELSE [ ok |-> TRUE, val |-> 0 ]
    IN  IF b \in { "inf", "infinity" }
        THEN [ kind |-> "inf", neg |-> neg, m |-> 0, d |-> 0 ]
        ELSE IF b = "nan"
        THEN [ kind |-> "nan", neg |-> FALSE, m |-> 0, d |-> 0 ]
        ELSE IF Len(e) <= 2 /\ man.ok /\ ex.ok
                /\ (Len(e) = 1 \/ (e[2] # "" /\ e[2] = strip(e[2]) /\ ~Contains(e[2], "_")))
        THEN IF ex.val >= man.d
             THEN Fin(neg, man.m * Pow10(ex.val - man.d), 0)
             ELSE Fin(neg, man.m, man.d - ex.val)
        ELSE FloatErr

\* a > b on floats (every comparison with a NaN is false)
FloatGT(a, b) ==
    LET sa == IF a.neg THEN 0 - 1 ELSE 1
        sb == IF b.neg THEN 0 - 1 ELSE 1
    IN  IF a.kind = "nan" \/ b.kind = "nan" THEN FALSE
        ELSE IF a.kind = "inf" THEN ~a.neg /\ ~(b.kind = "inf" /\ ~b.neg)
        ELSE IF b.kind = "inf" THEN b.neg
        ELSE sa * a.m * Pow10(b.d) > sb * b.m * Pow10(a.d)

\* a <= b on floats
FloatLE(a, b) ==
    IF a.kind = "nan" \/ b.kind = "nan" THEN FALSE ELSE ~FloatGT(a, b)

\* int(f) of a float: truncation toward zero; ok = FALSE stands for the
\* OverflowError / ValueError int() raises on an infinity or a NaN
FloatToInt(f) ==
    IF f.kind = "fin"
    THEN [ ok |-> TRUE,
           val |-> IF f.neg THEN 0 - (f.m \div Pow10(f.d)) ELSE f.m \div Pow10(f.d) ]
    ELSE [ ok |-> FALSE, val |-> 0 ]

(***************************************************************************)
(* src/normalization.py                                                    *)
(***************************************************************************)
\* the class without the minus sign
DASH_RX_NoMinus == { FIGURE_DASH, EN_DASH, EM_DASH, HYPHEN }

\* DASH_RX: the character class [\u2012\u2013\u2014\u2212\-]
DASH_RX == { FIGURE_DASH, EN_DASH, EM_DASH, MINUS_SIGN, HYPHEN }

\* DASH_RX.sub(EN_DASH, s)
RECURSIVE SubDashes(_)
SubDashes(s) ==
    IF s = "" THEN ""
    ELSE (IF Head(s) \in DASH_RX THEN EN_DASH ELSE Head(s)) \o SubDashes(Tail(s))

\* position k of s lies in a whitespace run that an en dash bounds on the
\* left or on the right: what one match of \s*<en dash>\s* consumes
InDashRun(s, k) ==
    /\ Ch(s, k) \in WS
    /\ \/ \E j \in 1..(k - 1) :
             Ch(s, j) = EN_DASH /\ \A h \in (j + 1)..k : Ch(s, h) \in WS
       \/ \E j \in (k + 1)..Len(s) :
             Ch(s, j) = EN_DASH /\ \A h \in k..(j - 1) : Ch(s, h) \in WS

\* re.sub(r"\s*" + EN_DASH + r"\s*", EN_DASH, s)
RECURSIVE TightenFrom(_, _)
TightenFrom(s, k) ==
    IF k > Len(s) THEN ""
    ELSE (IF InDashRun(s, k) THEN "" ELSE Ch(s, k)) \o TightenFrom(s, k + 1)

\* re.sub(r"\s+", " ", s)
RECURSIVE CollapseFrom(_, _)
CollapseFrom(s, k) ==
    IF k > Len(s) THEN ""
    ELSE (IF Ch(s, k) \notin WS THEN Ch(s, k)
          ELSE IF k > 1 /\ Ch(s, k - 1) \in WS THEN ""
          ELSE " ") \o CollapseFrom(s, k + 1)

normalize_dashes(s) ==
    IF s = "" THEN s
    ELSE strip(CollapseFrom(TightenFrom(SubDashes(s), 1), 1))

\* a normalizer's result: (canonical_value, warns)
Result(v, w) == [ value |-> v, warns |-> w ]

\* the canonical value a case-insensitive lookup finds for key; the
\* catalogs drawn below hold no two values that differ in case only, so
\* the iteration order of the Python set does not matter
CaseMatch(key, canonical_set) ==
    CHOOSE c \in canonical_set : lower(c) = lower(key)

HasCaseMatch(key, canonical_set) ==
    \E c \in canonical_set : lower(c) = lower(key)

canonical_cycle(value, canonical_set) ==
    LET raw  == value
        norm == normalize_dashes(raw)
    IN  IF norm \in canonical_set
        THEN Result(norm, IF norm # raw
                          THEN << <<"cycle_key normalized", raw, norm>> >> ELSE << >>)
        ELSE IF HasCaseMatch(norm, canonical_set)
        THEN LET canon == CaseMatch(norm, canonical_set)
             IN  Result(canon, IF canon # raw
                               THEN << <<"cycle_key normalized", raw, canon>> >>
                               ELSE << >>)
        ELSE Result(raw, << >>)

CATEGORY_ALIASES ==
    ("econ" :> "Economy/Finance") @@ ("economy" :> "Economy/Finance")
    @@ ("finance" :> "Economy/Finance") @@ ("health" :> "Public Health")
    @@ ("tech" :> "Science/Tech") @@ ("science" :> "Science/Tech")
    @@ ("culture" :> "Culture/Society") @@ ("society" :> "Culture/Society")
    @@ ("env" :> "Environment") @@ ("environmental" :> "Environment")
    @@ ("geo" :> "Geopolitics") @@ ("politics" :> "Geopolitics")

ASPECT_ALIASES ==
    ("conj" :> "conjunction") @@ ("opp" :> "opposition") @@ ("square" :> "square")
    @@ ("sq" :> "square") @@ ("tri" :> "trine") @@ ("tr" :> "trine")
    @@ ("sext" :> "sextile") @@ ("quin" :> "quincunx") @@ ("quinc" :> "quincunx")
    @@ ("quincunx" :> "quincunx")

SIGN_ALIASES ==
    ("ar" :> "Aries") @@ ("ta" :> "Taurus") @@ ("ge" :> "Gemini") @@ ("cn" :> "Cancer")
    @@ ("le" :> "Leo") @@ ("vi" :> "Virgo") @@ ("li" :> "Libra") @@ ("sc" :> "Scorpio")
    @@ ("sg" :> "Sagittarius") @@ ("cp" :> "Capricorn") @@ ("aq" :> "Aquarius")
    @@ ("pi" :> "Pisces")
    @@ ("aries" :> "Aries") @@ ("taurus" :> "Taurus") @@ ("gemini" :> "Gemini")
    @@ ("cancer" :> "Cancer") @@ ("leo" :> "Leo") @@ ("virgo" :> "Virgo")
    @@ ("libra" :> "Libra") @@ ("scorpio" :> "Scorpio")
    @@ ("sagittarius" :> "Sagittarius") @@ ("capricorn" :> "Capricorn")
    @@ ("aquarius" :> "Aquarius") @@ ("pisces" :> "Pisces")

PLANET_ALIASES ==
    ("sun" :> "Sun") @@ ("moon" :> "Moon")
    @@ ("mer" :> "Mercury") @@ ("merc" :> "Mercury") @@ ("mercury" :> "Mercury")
    @@ ("ven" :> "Venus") @@ ("venus" :> "Venus")
    @@ ("mar" :> "Mars") @@ ("mars" :> "Mars")
    @@ ("jup" :> "Jupiter") @@ ("jupiter" :> "Jupiter")
    @@ ("sat" :> "Saturn") @@ ("saturn" :> "Saturn")
    @@ ("ura" :> "Uranus") @@ ("uranus" :> "Uranus")
    @@ ("nep" :> "Neptune") @@ ("neptune" :> "Neptune")
    @@ ("plu" :> "Pluto") @@ ("pluto" :> "Pluto")
    @@ ("nn" :> "North Node") @@ ("north node" :> "North Node")
    @@ ("sn" :> "South Node") @@ ("south node" :> "South Node")

normalize_category(raw, canonical_set) ==
    LET key == strip(raw)
    IN  IF raw = "" THEN Result(raw, << >>)
        ELSE IF lower(key) \in DOMAIN CATEGORY_ALIASES
        THEN Result(CATEGORY_ALIASES[lower(key)],
                    << <<"category alias", raw, CATEGORY_ALIASES[lower(key)]>> >>)
        ELSE IF HasCaseMatch(key, canonical_set)
        THEN LET c == CaseMatch(key, canonical_set)
             IN  Result(c, IF key # c
                           THEN << <<"category case-normalized", raw, c>> >> ELSE << >>)
        ELSE Result(key, << >>)

normalize_aspect(raw, canonical_set) ==
    LET key == lower(strip(raw))
    IN  IF raw = "" THEN Result(raw, << >>)
        ELSE IF key \in DOMAIN ASPECT_ALIASES
        THEN Result(ASPECT_ALIASES[key], << <<"aspect alias", raw, ASPECT_ALIASES[key]>> >>)
        ELSE IF \E a \in canonical_set : key = lower(a)
        THEN LET a == CHOOSE c \in canonical_set : key = lower(c)
             IN  Result(a, IF raw # a
                           THEN << <<"aspect case-normalized", raw, a>> >> ELSE << >>)
        ELSE Result(raw, << >>)

normalize_sign(raw, canonical_set) ==
    LET key == strip(raw)
    IN  IF raw = "" THEN Result(raw, << >>)
        ELSE IF lower(key) \in DOMAIN SIGN_ALIASES
        THEN Result(SIGN_ALIASES[lower(key)],
                    << <<"sign alias", raw, SIGN_ALIASES[lower(key)]>> >>)
        ELSE IF HasCaseMatch(key, canonical_set)
        THEN LET c == CaseMatch(key, canonical_set)
             IN  Result(c, IF key # c
                           THEN << <<"sign case-normalized", raw, c>> >> ELSE << >>)
        ELSE Result(key, << >>)

normalize_planet(raw, canonical_set) ==
    LET key == strip(raw)
    IN  IF raw = "" THEN Result(raw, << >>)
        ELSE IF lower(key) \in DOMAIN PLANET_ALIASES
        THEN Result(PLANET_ALIASES[lower(key)],
                    << <<"planet alias", raw, PLANET_ALIASES[lower(key)]>> >>)
        ELSE IF HasCaseMatch(key, canonical_set)
        THEN LET c == CaseMatch(key, canonical_set)
             IN  Result(c, IF key # c
                           THEN << <<"planet case-normalized", raw, c>> >> ELSE << >>)
        ELSE Result(key, << >>)

\* the group (\d{1,2}) of ^\s*(?:wave\s*)?(\d{1,2})\s*$ under re.I, or "" when
\* the pattern does not match
WaveIdMatch(raw) ==
    LET t == lstrip(raw)
        u == IF Len(t) >= 4 /\ lower(SubSeq(t, 1, 4)) = "wave"
             THEN lstrip(SubSeq(t, 5, Len(t))) ELSE t
        n == rstrip(u)
    IN  IF Len(n) \in { 1, 2 } /\ \A k \in 1..Len(n) : IsDigit(Ch(n, k)) THEN n ELSE ""

normalize_wave_id(raw) ==
    LET num == WaveIdMatch(raw)
    IN  IF raw = "" THEN Result(raw, << >>)
        ELSE IF num # ""
        THEN Result(num, IF strip(raw) # num
                         THEN << <<"wave_id normalized", raw, num>> >> ELSE << >>)
        ELSE Result(raw, << >>)

(***************************************************************************)
(* src/scripts/validator.py                                                *)
(***************************************************************************)
is_iso_date(s) ==
    LET parts == split(s, "-")
    IN  /\ s # ""
        /\ Len(parts) = 3
        /\ Len(parts[1]) = 4 /\ Len(parts[2]) = 2 /\ Len(parts[3]) = 2
        /\ ParseInt(parts[1]).ok /\ ParseInt(parts[2]).ok /\ ParseInt(parts[3]).ok
        /\ 1 <= ParseInt(parts[2]).val /\ ParseInt(parts[2]).val <= 12
        /\ 1 <= ParseInt(parts[3]).val /\ ParseInt(parts[3]).val <= 31

(***************************************************************************)
(* JSON values of reference.json, as json.load returns them.               *)
(***************************************************************************)
Absent   == [ t |-> "absent" ]                \* the key is not in the object
JNull    == [ t |-> "null" ]
JStr(s)  == [ t |-> "str", v |-> s ]
JNum(s)  == [ t |-> "num", v |-> s ]          \* a number, by its literal
JBool(b) == [ t |-> "bool", v |-> b ]
JList(q) == [ t |-> "list", v |-> q ]
JObj(f)  == [ t |-> "obj", v |-> f ]
Invalid  == [ t |-> "invalid" ]               \* not parseable as JSON

\* d.get(key, default) of a dict d
Get(d, key, default) == IF key \in DOMAIN d.v THEN d.v[key] ELSE default

\* set(j) raises TypeError unless j is iterable (its items here are hashable)
SetOK(j) == j.t \in { "list", "str", "obj" }

\* set(j)
PySet(j) ==
    IF j.t = "list" THEN { j.v[k] : k \in 1..Len(j.v) }
    ELSE IF j.t = "str" THEN Chars(j.v)
    ELSE IF j.t = "obj" THEN DOMAIN j.v
    ELSE { }

\* Python truthiness of a JSON value
Truthy(j) ==
    IF j.t \in { "absent", "null" } THEN FALSE
    ELSE IF j.t = "str" THEN j.v # ""
    ELSE IF j.t = "list" THEN Len(j.v) > 0
    ELSE IF j.t = "obj" THEN DOMAIN j.v # { }
    ELSE IF j.t = "num" THEN ParseFloat(j.v).m # 0
    ELSE IF j.t = "bool" THEN j.v
    ELSE TRUE

\* float(j): of a number, or of a string that reads as one
FloatOf(j) ==
    IF j.t \in { "num", "str" } THEN ParseFloat(j.v) ELSE FloatErr

VARIABLES
    focus,             \* which inputs this run draws (see Inputs)
    ref,               \* the parsed reference.json
    pc,                \* where main() is
    cycles_ref, categories_ref, aspects_ref, signs_ref, planets_ref,
    waves_ref, rules, orb_limit,
    window_strengths, window_relations, link_strengths, wave_anchors,
    events, aspects_rows, waves_rows, eclipses, wave_windows, wave_links,
    seen_event_ids, seen_aspect_ids, seen_wavetag_ids, seen_eclipse_ids,
    problems, warnings,
    report             \* the rows written to validation_report.csv

refvars == << cycles_ref, categories_ref, aspects_ref, signs_ref, planets_ref,
              waves_ref, rules, orb_limit,
              window_strengths, window_relations, link_strengths, wave_anchors >>

tables == << events, aspects_rows, waves_rows, eclipses, wave_windows, wave_links >>

seen == << seen_event_ids, seen_aspect_ids, seen_wavetag_ids, seen_eclipse_ids >>

vars == << focus, ref, pc, refvars, tables, seen, problems, warnings, report >>

(***************************************************************************)
(* main(), lines 51-75: loading the reference document.                    *)
(***************************************************************************)
EnumKeys == { "cycles", "categories", "aspects", "signs", "planets" }

\* ref.get(key, []) for the five canonical enums
EnumOf(r, key) == Get(r, key, JList(<< >>))

\* ref.get("rules", {}) or {}
RulesOf(r) ==
    IF Truthy(Get(r, "rules", JObj(<< >>))) THEN Get(r, "rules", JObj(<< >>))
    ELSE JObj(<< >>)

\* rules.get("orb_deg_exact_window", 1.0)
OrbOf(r) == Get(RulesOf(r), "orb_deg_exact_window", JNum("1.0"))

WavesOf(r) == Get(r, "waves", JObj(<< >>))

WindowStrengthsOf(r) == Get(r, "window_strengths", JList(<< "anchor", "field" >>))

WindowRelationsOf(r) == Get(r, "window_relations", JList(<< "in_window", "near_window" >>))

LinkStrengthsOf(r) == Get(r, "link_strengths", JList(<< >>))

\* the keys of waves_ref that int(k) accepts (the others are skipped)
IntKeys(w) == { k \in DOMAIN w.v : ParseInt(k).ok }

\* lines 51-75 run to the end without an exception
LoadSucceeds(r) ==
    /\ r.t = "obj"
    /\ \A key \in EnumKeys : SetOK(EnumOf(r, key))
    /\ RulesOf(r).t = "obj"
    /\ FloatOf(OrbOf(r)).kind # "err"
    /\ SetOK(WindowStrengthsOf(r))
    /\ SetOK(WindowRelationsOf(r))
    /\ SetOK(LinkStrengthsOf(r))
    /\ WavesOf(r).t = "obj"
    /\ \A k \in IntKeys(WavesOf(r)) :
          /\ WavesOf(r).v[k].t = "obj"
          /\ SetOK(Get(WavesOf(r).v[k], "anchors", JList(<< >>)))

\* {int(k): set(v.get("anchors", []))}; two keys of one integer value keep
\* one of their anchor sets (the catalogs drawn hold no such pair)
WaveAnchors(w) ==
    [ n \in { ParseInt(k).val : k \in IntKeys(w) } |->
        PySet(Get(w.v[CHOOSE k \in IntKeys(w) : ParseInt(k).val = n],
                  "anchors", JList(<< >>))) ]

LoadReference ==
    /\ pc = "load"
    /\ IF LoadSucceeds(ref)
       THEN /\ cycles_ref' = PySet(EnumOf(ref, "cycles"))
            /\ categories_ref' = PySet(EnumOf(ref, "categories"))
            /\ aspects_ref' = PySet(EnumOf(ref, "aspects"))
            /\ signs_ref' = PySet(EnumOf(ref, "signs"))
            /\ planets_ref' = PySet(EnumOf(ref, "planets"))
            /\ waves_ref' = WavesOf(ref)
            /\ rules' = RulesOf(ref)
            /\ orb_limit' = FloatOf(OrbOf(ref))
            /\ window_strengths' = PySet(WindowStrengthsOf(ref))
            /\ window_relations' = PySet(WindowRelationsOf(ref))
            /\ link_strengths' = PySet(LinkStrengthsOf(ref))
            /\ wave_anchors' = WaveAnchors(WavesOf(ref))
            /\ pc' = "events"
       ELSE /\ pc' = "aborted"
            /\ UNCHANGED refvars
    /\ UNCHANGED << focus, ref, tables, seen, problems, warnings, report >>

(***************************************************************************)
(* main(), lines 85-363: the six table passes.  A diagnostic is the        *)
(* f-string's file, line number, fixed text (kind) and interpolated        *)
(* values (args).                                                          *)
(***************************************************************************)
Msg(file, i, kind, args) == [ file |-> file, line |-> i, kind |-> kind, args |-> args ]

\* [f"{file}:{i} {w}" for w in warns]
RECURSIVE Prefixed(_, _, _)
Prefixed(file, i, warns) ==
    IF warns = << >> THEN << >>
    ELSE << Msg(file, i, Head(warns)[1], Tail(Head(warns))) >>
         \o Prefixed(file, i, Tail(warns))

\* the identity check with the duplicate charged to the line before
IdentityCheck_LineBefore(file, i, name, id, seen_ids) ==
    IF id = "" THEN << Msg(file, i, "missing id", << name >>) >>
    ELSE IF id \in seen_ids THEN << Msg(file, i - 1, "duplicate id", << name, id >>) >>
    ELSE << >>

\* lines 96-101 (and 131-136, 205-210, 266-271): the identity check
IdentityCheck(file, i, name, id, seen_ids) ==
    IF id = "" THEN << Msg(file, i, "missing id", << name >>) >>
    ELSE IF id \in seen_ids THEN << Msg(file, i, "duplicate id", << name, id >>) >>
    ELSE << >>

\* the seen set after the identity check
Seen(id, seen_ids) == IF id # "" /\ id \notin seen_ids THEN seen_ids \cup { id } ELSE seen_ids

\* the foreign-key check without its "eid and" guard
ForeignKeyCheck_NoGuard(file, i, eid, text) ==
    IF eid \notin seen_event_ids
    THEN << Msg(file, i, text, << eid >>) >>
    ELSE << >>

\* lines 138-139 (and 212-213, 276-277, 345-346): the foreign-key check;
\* text is "does not exist in events.csv" or, for the links, "not in events.csv"
ForeignKeyCheck(file, i, eid, text) ==
    IF eid # "" /\ eid \notin seen_event_ids
    THEN << Msg(file, i, text, << eid >>) >>
    ELSE << >>

\* lines 103-104 and 141-142: a date that must be present and well-formed
DateCheck(file, i, date) ==
    IF ~is_iso_date(date) THEN << Msg(file, i, "bad date", << date >>) >> ELSE << >>

\* lines 91-112: one row of events.csv
EventsProblems(row, i) ==
    LET eid     == strip(row.event_id)
        date    == strip(row.date)
        cat_raw == strip(row.category)
        cat_ok  == normalize_category(cat_raw, categories_ref).value
    IN  IdentityCheck("events.csv", i, "event_id", eid, seen_event_ids)
        \o DateCheck("events.csv", i, date)
        \o (IF cat_raw # "" /\ cat_ok \notin categories_ref
            THEN << Msg("events.csv", i, "category not in reference.json categories",
                        << cat_raw, cat_ok >>) >>
            ELSE << >>)

EventsWarnings(row, i) ==
    LET cat_raw == strip(row.category)
    IN  IF cat_raw # ""
        THEN Prefixed("events.csv", i, normalize_category(cat_raw, categories_ref).warns)
        ELSE << >>

\* the orb check with an orb over the limit raised as a problem
OrbCheck_Strict(i, orb) ==
    LET orb_val == ParseFloat(orb)
    IN  IF orb_val.kind = "err"
        THEN [ problems |-> << Msg("aspects.csv", i, "orb_deg not a float", << orb >>) >>,
               warnings |-> << >> ]
        ELSE IF FloatGT(orb_val, orb_limit)
        THEN [ problems |-> << Msg("aspects.csv", i, "orb > limit",
                                   << orb_val, orb_limit >>) >>,
               warnings |-> << >> ]
        ELSE [ problems |-> << >>, warnings |-> << >> ]

\* lines 166-172: the orb check, as [problems, warnings]
OrbCheck(i, orb) ==
    LET orb_val == ParseFloat(orb)
    IN  IF orb_val.kind = "err"
        THEN [ problems |-> << Msg("aspects.csv", i, "orb_deg not a float", << orb >>) >>,
               warnings |-> << >> ]
        ELSE IF FloatGT(orb_val, orb_limit)
        THEN [ problems |-> << >>,
               warnings |-> << Msg("aspects.csv", i, "orb > limit",
                                   << orb_val, orb_limit >>) >> ]
        ELSE [ problems |-> << >>, warnings |-> << >> ]

Zero == Fin(FALSE, 0, 0)

Thirty == Fin(FALSE, 30, 0)

\* lines 174-181: the degree sanity check
DegreeCheck(i, deg_a_raw, deg_b_raw) ==
    LET da == ParseFloat(deg_a_raw)
        db == ParseFloat(deg_b_raw)
    IN  IF da.kind = "err" \/ db.kind = "err"
        THEN << Msg("aspects.csv", i, "deg_a/deg_b must be floats", << >>) >>
        ELSE IF ~(FloatLE(Zero, da) /\ FloatGT(Thirty, da)
                  /\ FloatLE(Zero, db) /\ FloatGT(Thirty, db))
        THEN << Msg("aspects.csv", i, "deg_a/deg_b out of [0,30)", << >>) >>
        ELSE << >>

\* lines 183-192: the cycle key requirement and normalization
CycleProblems(i, cyc_raw) ==
    IF cyc_raw = "" /\ Truthy(Get(rules, "require_cycle_key_for_aspects", JBool(FALSE)))
    THEN << Msg("aspects.csv", i, "missing cycle_key (required by rules)", << >>) >>
    ELSE IF cyc_raw # "" /\ canonical_cycle(cyc_raw, cycles_ref).value \notin cycles_ref
    THEN << Msg("aspects.csv", i, "cycle_key not in reference.json cycles",
                << cyc_raw, canonical_cycle(cyc_raw, cycles_ref).value >>) >>
    ELSE << >>

CycleWarnings(i, cyc_raw) ==
    IF cyc_raw = "" THEN << >>
    ELSE Prefixed("aspects.csv", i, canonical_cycle(cyc_raw, cycles_ref).warns)

\* lines 117-192: one row of aspects.csv
AspectsProblems(row, i) ==
    LET aid == strip(row.aspect_id)
        eid == strip(row.event_id)
        pa  == normalize_planet(strip(row.planet_a), planets_ref).value
        pb  == normalize_planet(strip(row.planet_b), planets_ref).value
        asp == normalize_aspect(strip(row.aspect), aspects_ref).value
        sa  == normalize_sign(strip(row.sign_a), signs_ref).value
        sb  == normalize_sign(strip(row.sign_b), signs_ref).value
    IN  IdentityCheck("aspects.csv", i, "aspect_id", aid, seen_aspect_ids)
        \o ForeignKeyCheck("aspects.csv", i, eid, "does not exist in events.csv")
        \o DateCheck("aspects.csv", i, strip(row.date))
        \o (IF pa \notin planets_ref \/ pb \notin planets_ref
            THEN << Msg("aspects.csv", i, "planet not in reference.json list", << >>) >>
            ELSE << >>)
        \o (IF asp \notin aspects_ref
            THEN << Msg("aspects.csv", i, "aspect not in reference.json aspects",
                        << strip(row.aspect), asp >>) >>
            ELSE << >>)
        \o (IF sa \notin signs_ref \/ sb \notin signs_ref
            THEN << Msg("aspects.csv", i, "sign not in reference.json signs", << >>) >>
            ELSE << >>)
        \o OrbCheck(i, strip(row.orb_deg)).problems
        \o DegreeCheck(i, strip(row.deg_a), strip(row.deg_b))
        \o CycleProblems(i, strip(row.cycle_key))

AspectsWarnings(row, i) ==
    Prefixed("aspects.csv", i,
             normalize_planet(strip(row.planet_a), planets_ref).warns
             \o normalize_planet(strip(row.planet_b), planets_ref).warns
             \o normalize_aspect(strip(row.aspect), aspects_ref).warns
             \o normalize_sign(strip(row.sign_a), signs_ref).warns
             \o normalize_sign(strip(row.sign_b), signs_ref).warns)
    \o OrbCheck(i, strip(row.orb_deg)).warnings
    \o CycleWarnings(i, strip(row.cycle_key))

\* sorted(list(a_set)) of a set of integers
RECURSIVE Sorted(_)
Sorted(S) ==
    IF S = { } THEN << >>
    ELSE LET lo == CHOOSE a \in S : \A b \in S : a <= b
         IN  << lo >> \o Sorted(S \ { lo })

\* waves_ref.get(str(wave_id_int))
WaveDef(n) == Get(waves_ref, ToString(n), JNull)

\* (wave_def.get("name") or "").strip() raises AttributeError when the name
\* is a truthy value that is no string
NameCrashes(wave_def) ==
    /\ Truthy(Get(wave_def, "name", JNull))
    /\ Get(wave_def, "name", JNull).t # "str"

\* (wave_def.get("name") or "").strip()
Expected(wave_def) ==
    IF Truthy(Get(wave_def, "name", JNull)) THEN strip(Get(wave_def, "name", JNull).v)
    ELSE ""

\* int(float(anchor_deg_raw)), lines 226-230
AnchorDegInt(anchor_deg_raw) == FloatToInt(ParseFloat(anchor_deg_raw))

\* the anchor check on the rounded, not the truncated, anchor degree
AnchorCheck_Rounded(i, wave_def, wave_id_ok, anchor_deg_raw) ==
    LET f              == ParseFloat(anchor_deg_raw)
        anchor_deg_int == FloatToInt(f)
        rounded        == (2 * f.m + Pow10(f.d)) \div (2 * Pow10(f.d))
        valid_set      == PySet(Get(wave_def, "anchors", JList(<< >>)))
    IN  IF anchor_deg_int.ok /\ rounded \notin valid_set
        THEN << Msg("waves.csv", i, "anchor_deg not valid for wave_id",
                    << rounded, wave_id_ok, Sorted(valid_set) >>) >>
        ELSE << >>

\* lines 243-250: the anchor must be valid for that wave
AnchorCheck(i, wave_def, wave_id_ok, anchor_deg_raw) ==
    LET anchor_deg_int == AnchorDegInt(anchor_deg_raw)
        valid_set      == PySet(Get(wave_def, "anchors", JList(<< >>)))
    IN  IF anchor_deg_int.ok /\ anchor_deg_int.val \notin valid_set
        THEN << Msg("waves.csv", i, "anchor_deg not valid for wave_id",
                    << anchor_deg_int.val, wave_id_ok, Sorted(valid_set) >>) >>
        ELSE << >>

\* lines 252-256: the anchor_sign check
AnchorSignCheck(i, anchor_sign) ==
    IF anchor_sign # "" /\ ~Contains(anchor_sign, "/") /\ anchor_sign \notin signs_ref
    THEN << Msg("waves.csv", i, "anchor_sign not in reference.json signs", << anchor_sign >>) >>
    ELSE << >>

\* lines 205-230: the checks of a waves.csv row up to the wave lookup
WavesHead(row, i) ==
    LET wave_id_raw == strip(row.wave_id)
        wave_id_ok  == normalize_wave_id(wave_id_raw).value
    IN  IdentityCheck("waves.csv", i, "wave_tag_id", strip(row.wave_tag_id), seen_wavetag_ids)
        \o ForeignKeyCheck("waves.csv", i, strip(row.event_id), "does not exist in events.csv")
        \o (IF ~ParseInt(wave_id_ok).ok
            THEN << Msg("waves.csv", i, "wave_id not an integer-ish", << wave_id_raw >>) >>
            ELSE << >>)
        \o (IF ~AnchorDegInt(strip(row.anchor_deg)).ok
            THEN << Msg("waves.csv", i, "anchor_deg must be integer-ish",
                        << strip(row.anchor_deg) >>) >>
            ELSE << >>)

\* the row raises at line 238
WavesCrashes(row) ==
    LET wave_id_int == ParseInt(normalize_wave_id(strip(row.wave_id)).value)
    IN  /\ wave_id_int.ok
        /\ Truthy(WaveDef(wave_id_int.val))
        /\ NameCrashes(WaveDef(wave_id_int.val))

\* lines 232-256: the wave lookup, name, anchor and anchor_sign checks
WavesTail(row, i) ==
    LET wave_id_ok  == normalize_wave_id(strip(row.wave_id)).value
        wave_id_int == ParseInt(wave_id_ok)
        wave_def    == WaveDef(wave_id_int.val)
        wave_name   == strip(row.wave_name)
    IN  (IF ~wave_id_int.ok THEN << >>
         ELSE IF ~Truthy(wave_def)
         THEN << Msg("waves.csv", i, "wave_id not in reference.json waves", << wave_id_ok >>) >>
         ELSE (IF wave_name # "" /\ wave_name # Expected(wave_def)
               THEN << Msg("waves.csv", i, "wave_name != expected",
                           << wave_name, Expected(wave_def), wave_id_ok >>) >>
               ELSE << >>)
              \o AnchorCheck(i, wave_def, wave_id_ok, strip(row.anchor_deg)))
        \o AnchorSignCheck(i, strip(row.anchor_sign))

\* lines 197-256: one row of waves.csv
WavesProblems(row, i) == WavesHead(row, i) \o WavesTail(row, i)

WavesWarnings(row, i) ==
    Prefixed("waves.csv", i, normalize_wave_id(strip(row.wave_id)).warns)

\* lines 261-277: one row of eclipses.csv
EclipsesProblems(row, i) ==
    IdentityCheck("eclipses.csv", i, "eclipse_id", strip(row.eclipse_id), seen_eclipse_ids)
    \o (IF strip(row.date) # "" THEN DateCheck("eclipses.csv", i, strip(row.date)) ELSE << >>)
    \o ForeignKeyCheck("eclipses.csv", i, strip(row.event_id), "does not exist in events.csv")

\* lines 292-295 and 340-343: for k in need: a problem per empty field
RECURSIVE MissingFields(_, _, _, _)
MissingFields(file, i, row, need) ==
    IF need = << >> THEN << >>
    ELSE (IF strip(row[Head(need)]) = ""
          THEN << Msg(file, i, "missing field", << Head(need) >>) >> ELSE << >>)
         \o MissingFields(file, i, row, Tail(need))

WindowNeed ==
    << "aspect_id", "wave_id", "wave_name", "anchor_sign", "center_anchor_deg",
       "strength", "coverage_start", "coverage_end", "max_delta_deg" >>

LinkNeed == << "aspect_id", "event_id", "wave_id", "relation", "strength" >>

\* lines 292-302: the checks of a wave_windows.csv row up to the wave lookup
WindowsHead(row, i) ==
    MissingFields("wave_windows.csv", i, row, WindowNeed)
    \o (IF ~ParseInt(strip(row.wave_id)).ok
        THEN << Msg("wave_windows.csv", i, "wave_id not int", << strip(row.wave_id) >>) >>
        ELSE << >>)

\* the row raises at line 309
WindowsCrashes(row) ==
    LET wid == ParseInt(strip(row.wave_id))
    IN  wid.ok /\ Truthy(WaveDef(wid.val)) /\ NameCrashes(WaveDef(wid.val))

\* a wave_windows.csv date field that may be empty, lines 322-325
WindowDate(i, name, d) ==
    IF d # "" /\ ~is_iso_date(d)
    THEN << Msg("wave_windows.csv", i, "bad date", << name, d >>) >> ELSE << >>

\* a wave_windows.csv field that must read as a float, lines 316-319, 326-329
WindowFloat(i, name, f) ==
    IF ParseFloat(f).kind = "err"
    THEN << Msg("wave_windows.csv", i, "not float", << name, f >>) >> ELSE << >>

\* lines 304-329
WindowsTail(row, i) ==
    LET wid   == ParseInt(strip(row.wave_id))
        wdef  == WaveDef(wid.val)
        wname == strip(row.wave_name)
        asn   == strip(row.anchor_sign)
        strength == strip(row.strength)
    IN  (IF ~wid.ok THEN << >>
         ELSE IF ~Truthy(wdef)
         THEN << Msg("wave_windows.csv", i, "wave_id not in reference.json", << wid.val >>) >>
         ELSE IF wname # "" /\ wname # Expected(wdef)
         THEN << Msg("wave_windows.csv", i, "wave_name != expected",
                     << wname, Expected(wdef) >>) >>
         ELSE << >>)
        \o (IF asn # "" /\ asn \notin signs_ref
            THEN << Msg("wave_windows.csv", i, "anchor_sign not in signs", << asn >>) >>
            ELSE << >>)
        \o WindowFloat(i, "center_anchor_deg", strip(row.center_anchor_deg))
        \o (IF strength # "" /\ strength \notin window_strengths
            THEN << Msg("wave_windows.csv", i, "strength not in window_strengths",
                        << strength >>) >>
            ELSE << >>)
        \o WindowDate(i, "coverage_start", strip(row.coverage_start))
        \o WindowDate(i, "coverage_end", strip(row.coverage_end))
        \o WindowFloat(i, "max_delta_deg", strip(row.max_delta_deg))

\* lines 281-329: one row of wave_windows.csv
WindowsProblems(row, i) == WindowsHead(row, i) \o WindowsTail(row, i)

\* lines 333-354: one row of wave_window_event_links.csv
LinksProblems(row, i) ==
    LET rel == strip(row.relation)
    IN  MissingFields("wave_window_event_links.csv", i, row, LinkNeed)
        \o ForeignKeyCheck("wave_window_event_links.csv", i, strip(row.event_id),
                           "not in events.csv")
        \o (IF ~ParseInt(strip(row.wave_id)).ok
            THEN << Msg("wave_window_event_links.csv", i, "wave_id not int",
                        << strip(row.wave_id) >>) >>
            ELSE << >>)
        \o (IF rel # "" /\ rel \notin window_relations
            THEN << Msg("wave_window_event_links.csv", i, "relation not in window_relations",
                        << rel >>) >>
            ELSE << >>)

\* the strength check without the link_strengths enum
LinksWarnings_NoEnum(row, i) ==
    LET strength == strip(row.strength)
    IN  IF ParseFloat(strength).kind = "err" /\ strength # ""
        THEN << Msg("wave_window_event_links.csv", i,
                    "strength not numeric and not in link_strengths", << strength >>) >>
        ELSE << >>

\* lines 356-363: allow numeric OR enum strength
LinksWarnings(row, i) ==
    LET strength == strip(row.strength)
    IN  IF ParseFloat(strength).kind = "err" /\ strength # ""
           /\ strength \notin link_strengths
        THEN << Msg("wave_window_event_links.csv", i,
                    "strength not numeric and not in link_strengths", << strength >>) >>
        ELSE << >>

\* the report with the warnings written first
WriteReport_WarningsFirst(probs, warns) ==
    [ k \in 1..(Len(probs) + Len(warns)) |->
        IF k <= Len(warns) THEN << "WARN", warns[k] >>
        ELSE << "ERROR", probs[k - Len(warns)] >> ]

\* lines 368-374: the report rows after the header
RECURSIVE Leveled(_, _)
Leveled(level, msgs) ==
    IF msgs = << >> THEN << >>
    ELSE << << level, Head(msgs) >> >> \o Leveled(level, Tail(msgs))

WriteReport(probs, warns) == Leveled("ERROR", probs) \o Leveled("WARN", warns)

(***************************************************************************)
(* Inputs.  A run reads one reference document and six tables.  Each run   *)
(* has a focus: the focus table holds any sequence of up to MaxIdRows (an  *)
(* identifier focus) or MaxRows (a field focus) rows drawn from the rows   *)
(* of that focus, every other table holds its one Noisy row, and the       *)
(* reference document is GoodRef; under the focus "catalog" the document   *)
(* is any of RefDocs and every table holds its Noisy row.  A table's rows  *)
(* are drawn as the pass reaches them: the table variables hold the rows   *)
(* read so far.  One document of RefDocs gives wave 3 a name that is a     *)
(* number: the run that reads it takes the AttributeError of line 238.     *)
(***************************************************************************)
MaxRows == 1

MaxIdRows == 3

Cyc(a, b) == a \o EN_DASH \o b

GoodWaves ==
    JObj(("3" :> JObj(("name" :> JStr("Test Wave")) @@ ("anchors" :> JList(<< 0, 15 >>))))
         @@ ("9" :> JObj(("name" :> JStr("Ninth")) @@ ("anchors" :> JList(<< 0, 40, 80 >>)))))

GoodRef ==
    JObj(("signs" :> JList(<< "Aries", "Taurus", "Gemini", "Cancer", "Leo", "Virgo", "Libra",
                              "Scorpio", "Sagittarius", "Capricorn", "Aquarius", "Pisces" >>))
         @@ ("planets" :> JList(<< "Sun", "Moon", "Mercury", "Venus", "Mars", "Jupiter",
                                   "Saturn", "Uranus", "Neptune", "Pluto", "Chiron",
                                   "North Node", "South Node" >>))
         @@ ("aspects" :> JList(<< "conjunction", "opposition", "square", "trine", "sextile",
                                   "quincunx", "semisquare" >>))
         @@ ("cycles" :> JList(<< Cyc("Saturn", "Pluto"), Cyc("Jupiter", "Saturn") >>))
         @@ ("categories" :> JList(<< "Geopolitics", "Economy/Finance", "Environment",
                                      "Public Health" >>))
         @@ ("waves" :> GoodWaves)
         @@ ("rules" :> JObj("orb_deg_exact_window" :> JNum("1.0"))))

Without(doc, key) == JObj([ k \in DOMAIN doc.v \ { key } |-> doc.v[k] ])

With(doc, key, val) == JObj((key :> val) @@ doc.v)

RequiredKeys == << "signs", "planets", "aspects", "cycles", "categories", "waves", "rules" >>

RefDocs ==
    << GoodRef >>
    \o [ k \in 1..Len(RequiredKeys) |-> Without(GoodRef, RequiredKeys[k]) ]
    \o << JObj(<< >>),
          Invalid,
          JList(<< >>),
          With(GoodRef, "signs", JStr("Aries")),
          With(GoodRef, "signs", JNum("12")),
          With(GoodRef, "planets", JNull),
          With(GoodRef, "rules", JNull),
          With(GoodRef, "rules", JObj(<< >>)),
          With(GoodRef, "rules", JStr("strict")),
          With(GoodRef, "rules", JObj("orb_deg_exact_window" :> JStr("abc"))),
          With(GoodRef, "rules", JObj("orb_deg_exact_window" :> JStr("2.5"))),
          With(GoodRef, "rules", JObj("orb_deg_exact_window" :> JNull)),
          With(GoodRef, "rules", JObj(("orb_deg_exact_window" :> JNum("1.0"))
                                      @@ ("require_cycle_key_for_aspects" :> JBool(TRUE)))),
          With(GoodRef, "waves", JList(<< >>)),
          With(GoodRef, "waves", JObj("3" :> JStr("Test Wave"))),
          With(GoodRef, "waves", JObj("three" :> JStr("Test Wave"))),
          With(GoodRef, "waves", JObj("3" :> JObj(("name" :> JStr("Test Wave"))
                                                  @@ ("anchors" :> JNum("15"))))),
          With(GoodRef, "waves", JObj("3" :> JObj(("name" :> JNum("3"))
                                                  @@ ("anchors" :> JList(<< 0, 15 >>))))),
          With(GoodRef, "link_strengths", JList(<< "strong", "weak" >>)),
          With(GoodRef, "link_strengths", JNum("1")) >>

CleanEvent == [ event_id |-> "e1", date |-> "2024-02-30", category |-> "Geopolitics" ]

CleanAspect ==
    [ aspect_id |-> "a1", event_id |-> "e1", date |-> "2024-03-01",
      planet_a |-> "Chiron", planet_b |-> "Chiron", aspect |-> "semisquare",
      sign_a |-> "Aries", sign_b |-> "Leo", orb_deg |-> "0.5",
      cycle_key |-> "", deg_a |-> "12.5", deg_b |-> "0" ]

CleanWave ==
    [ wave_tag_id |-> "w1", event_id |-> "e1", wave_id |-> "3", wave_name |-> "Test Wave",
      anchor_deg |-> "15.0", anchor_sign |-> "Aries" ]

CleanEclipse == [ eclipse_id |-> "x1", date |-> "2024-04-08", event_id |-> "e1" ]

CleanWindow ==
    [ aspect_id |-> "a1", wave_id |-> "3", wave_name |-> "Test Wave", anchor_sign |-> "Aries",
      center_anchor_deg |-> "15", strength |-> "anchor", coverage_start |-> "2024-01-01",
      coverage_end |-> "2024-02-01", max_delta_deg |-> "1.5" ]

CleanLink ==
    [ aspect_id |-> "a1", event_id |-> "e1", wave_id |-> "3", relation |-> "in_window",
      strength |-> "0.8" ]

\* the one row of a table out of focus: it raises a problem, and a warning
\* where its table can raise one
Noisy ==
    [ events       |-> [ CleanEvent EXCEPT !.date = "2024-2-30", !.category = "econ" ],
      aspects      |-> [ CleanAspect EXCEPT !.aspect = "sq", !.orb_deg = "abc" ],
      waves        |-> [ CleanWave EXCEPT !.wave_id = "Wave 3", !.anchor_deg = "7" ],
      eclipses     |-> [ CleanEclipse EXCEPT !.event_id = "e9" ],
      wave_windows |-> [ CleanWindow EXCEPT !.strength = "bogus" ],
      wave_links   |-> [ CleanLink EXCEPT !.relation = "beside", !.strength = "strong" ] ]

IdInputs(p) == { "", p \o "1", p \o "2", " " \o p \o "1 " }

EventRefInputs == { "", "e1", "e2" }

DateInputs ==
    { "2024-02-30", "2024-2-30", "", "2024-12-31", "2024-13-01", "2024-00-10",
      "2024-01-00", "2024-01-32", "2024-+2-30", "+024-01-01", "2024- 1-01", "2_24-01-01",
      "20a4-01-01", "2024-01", "2024-01-01-01", "2024/01/01", "24-01-2024", "2024-01-1a",
      "2024-01-01 ", "2024--1-01" }

CategoryInputs ==
    { "Geopolitics", "Economy/Finance", "Public Health", "geopolitics", "econ", "health",
      "Bogus", "", " Environment" }

PlanetInputs == { "Mars", "North Node", "Chiron", "mars", "mar", "chiron", "Vulcan", "" }

AspectInputs ==
    { "square", "quincunx", "trine", "semisquare", "Square", "sq", "SemiSquare", "bogus", "" }

SignInputs == { "Aries", "Leo", "aries", "ar", "LEO", "Ophiuchus", "" }

OrbInputs == { "0.5", "1.0", "1.5", "1.01", "abc", "", "nan", "inf", "1e1", "1,5" }

DegInputs == { "0", "29.9", "30", "-0.1", "x", "" }

DashInputs == { HYPHEN, FIGURE_DASH, EN_DASH, EM_DASH, MINUS_SIGN, NB_HYPHEN }

CycleInputs ==
    { "Saturn" \o sp[1] \o d \o sp[2] \o "Pluto" :
          d \in DashInputs, sp \in { << "", "" >>, << " ", "  " >> } }
    \cup { "saturn-pluto", "Saturn Pluto", "Mars-Venus", "Jupiter -\tSaturn" }

WaveIdInputs == { "3", "Wave 3", "9", "12", "x", "" }

AnchorDegInputs == { "15.0", "7", "15.9", "-0.5", "abc", "", "inf" }

AnchorSignInputs ==
    { "Aries", "Virgo/Pisces", "aries", "Bogus", "x/y", "Aries/", "/", "Aries/Leo/Virgo", "" }

StrengthInputs == { "0.8", "strong", "strongish", "", "nan", "1e2", "-" }

Focuses ==
    { "catalog", "event_ids", "event_fields", "aspect_ids", "aspect_fields", "wave_ids",
      "wave_fields", "eclipses", "windows", "links" }

IdFocuses == { "event_ids", "aspect_ids", "wave_ids", "eclipses" }

FocusTable ==
    [ catalog |-> "none", event_ids |-> "events", event_fields |-> "events",
      aspect_ids |-> "aspects", aspect_fields |-> "aspects", wave_ids |-> "waves",
      wave_fields |-> "waves", eclipses |-> "eclipses", windows |-> "wave_windows",
      links |-> "wave_links" ]

FocusRows(f) ==
    IF f = "event_ids"
    THEN { [ CleanEvent EXCEPT !.event_id = e ] : e \in IdInputs("e") }
    ELSE IF f = "event_fields"
    THEN { [ CleanEvent EXCEPT !.date = d ] : d \in DateInputs }
         \cup { [ CleanEvent EXCEPT !.category = c ] : c \in CategoryInputs }
    ELSE IF f = "aspect_ids"
    THEN { [ CleanAspect EXCEPT !.aspect_id = a ] : a \in IdInputs("a") }
         \cup { [ CleanAspect EXCEPT !.event_id = e ] : e \in EventRefInputs }
    ELSE IF f = "aspect_fields"
    THEN { [ CleanAspect EXCEPT !.planet_a = v ] : v \in PlanetInputs }
         \cup { [ CleanAspect EXCEPT !.aspect = v ] : v \in AspectInputs }
         \cup { [ CleanAspect EXCEPT !.sign_b = v ] : v \in SignInputs }
         \cup { [ CleanAspect EXCEPT !.orb_deg = v ] : v \in OrbInputs }
         \cup { [ CleanAspect EXCEPT !.deg_a = v ] : v \in DegInputs }
         \cup { [ CleanAspect EXCEPT !.cycle_key = v ] : v \in CycleInputs }
    ELSE IF f = "wave_ids"
    THEN { [ CleanWave EXCEPT !.wave_tag_id = a ] : a \in IdInputs("w") }
         \cup { [ CleanWave EXCEPT !.event_id = e ] : e \in EventRefInputs }
    ELSE IF f = "wave_fields"
    THEN { [ CleanWave EXCEPT !.wave_id = w, !.anchor_deg = a, !.wave_name = "" ] :
               w \in WaveIdInputs, a \in AnchorDegInputs }
         \cup { [ CleanWave EXCEPT !.wave_name = n ] : n \in { "Test Wave", "Ninth", "" } }
         \cup { [ CleanWave EXCEPT !.anchor_sign = v ] : v \in AnchorSignInputs }
    ELSE IF f = "eclipses"
    THEN { [ CleanEclipse EXCEPT !.eclipse_id = a ] : a \in IdInputs("x") }
         \cup { [ CleanEclipse EXCEPT !.event_id = e ] : e \in EventRefInputs }
         \cup { [ CleanEclipse EXCEPT !.date = d ] : d \in { "2024-4-8" } }
    ELSE IF f = "windows"
    THEN { [ CleanWindow EXCEPT !.wave_id = w, !.wave_name = n ] :
               w \in { "3", "9", "12", "Wave 3", "" }, n \in { "Test Wave", "" } }
         \cup { [ CleanWindow EXCEPT !.anchor_sign = v ] : v \in { "aries", "Virgo/Pisces", "" } }
         \cup { [ CleanWindow EXCEPT !.center_anchor_deg = v ] : v \in { "abc", "", "inf" } }
         \cup { [ CleanWindow EXCEPT !.strength = v ] : v \in { "field", "bogus", "" } }
         \cup { [ CleanWindow EXCEPT !.coverage_end = v ] : v \in { "2024-2-1", "" } }
         \cup { [ CleanWindow EXCEPT !.aspect_id = "", !.max_delta_deg = v ] : v \in { "x", "" } }
    ELSE IF f = "links"
    THEN { [ CleanLink EXCEPT !.event_id = e ] : e \in EventRefInputs }
         \cup { [ CleanLink EXCEPT !.strength = v ] : v \in StrengthInputs }
         \cup { [ CleanLink EXCEPT !.relation = v ] : v \in { "near_window", "beside", "" } }
         \cup { [ CleanLink EXCEPT !.wave_id = v ] : v \in { "Wave 3", "" } }
    ELSE { }

\* the rows table t may hold next, n rows being read
Inputs(t, n) ==
    IF FocusTable[focus] = t
    THEN IF n < (IF focus \in IdFocuses THEN MaxIdRows ELSE MaxRows)
         THEN FocusRows(focus) ELSE { }
    ELSE IF n = 0 THEN { Noisy[t] } ELSE { }

\* table t, n rows being read, may end here
Exhausted(t, n) == FocusTable[focus] = t \/ n = 1

(***************************************************************************)
(* The run: main() as a state machine.                                     *)
(***************************************************************************)
Init ==
    /\ focus \in Focuses
    /\ \E k \in 1..Len(RefDocs) : ref = RefDocs[k] /\ (focus = "catalog" \/ k = 1)
    /\ pc = "load"
    /\ cycles_ref = { } /\ categories_ref = { } /\ aspects_ref = { }
    /\ signs_ref = { } /\ planets_ref = { }
    /\ waves_ref = JObj(<< >>) /\ rules = JObj(<< >>) /\ orb_limit = Zero
    /\ window_strengths = { } /\ window_relations = { } /\ link_strengths = { }
    /\ wave_anchors = << >>
    /\ events = << >> /\ aspects_rows = << >> /\ waves_rows = << >>
    /\ eclipses = << >> /\ wave_windows = << >> /\ wave_links = << >>
    /\ seen_event_ids = { } /\ seen_aspect_ids = { }
    /\ seen_wavetag_ids = { } /\ seen_eclipse_ids = { }
    /\ problems = << >> /\ warnings = << >>
    /\ report = << >>

\* lines 91-112: the loop body for the next row of events.csv
EventsRow ==
    /\ pc = "events"
    /\ \E row \in Inputs("events", Len(events)) :
          LET i == Len(events) + 2
          IN  /\ events' = Append(events, row)
              /\ problems' = problems \o EventsProblems(row, i)
              /\ warnings' = warnings \o EventsWarnings(row, i)
              /\ seen_event_ids' = Seen(strip(row.event_id), seen_event_ids)
    /\ UNCHANGED << focus, ref, pc, refvars, aspects_rows, waves_rows, eclipses,
                    wave_windows, wave_links, seen_aspect_ids, seen_wavetag_ids,
                    seen_eclipse_ids, report >>

EventsEnd ==
    /\ pc = "events" /\ Exhausted("events", Len(events))
    /\ pc' = "aspects"
    /\ UNCHANGED << focus, ref, refvars, tables, seen, problems, warnings, report >>

\* lines 117-192: the loop body for the next row of aspects.csv
AspectsRow ==
    /\ pc = "aspects"
    /\ \E row \in Inputs("aspects", Len(aspects_rows)) :
          LET i == Len(aspects_rows) + 2
          IN  /\ aspects_rows' = Append(aspects_rows, row)
              /\ problems' = problems \o AspectsProblems(row, i)
              /\ warnings' = warnings \o AspectsWarnings(row, i)
              /\ seen_aspect_ids' = Seen(strip(row.aspect_id), seen_aspect_ids)
    /\ UNCHANGED << focus, ref, pc, refvars, events, waves_rows, eclipses,
                    wave_windows, wave_links, seen_event_ids, seen_wavetag_ids,
                    seen_eclipse_ids, report >>

AspectsEnd ==
    /\ pc = "aspects" /\ Exhausted("aspects", Len(aspects_rows))
    /\ pc' = "waves"
    /\ UNCHANGED << focus, ref, refvars, tables, seen, problems, warnings, report >>

\* lines 197-256: the loop body for the next row of waves.csv
WavesRow ==
    /\ pc = "waves"
    /\ \E row \in Inputs("waves", Len(waves_rows)) :
          LET i == Len(waves_rows) + 2
          IN  /\ waves_rows' = Append(waves_rows, row)
              /\ warnings' = warnings \o WavesWarnings(row, i)
              /\ seen_wavetag_ids' = Seen(strip(row.wave_tag_id), seen_wavetag_ids)
              /\ IF WavesCrashes(row)
                 THEN /\ problems' = problems \o WavesHead(row, i)
                      /\ pc' = "crashed"
                 ELSE /\ problems' = problems \o WavesProblems(row, i)
                      /\ pc' = pc
    /\ UNCHANGED << focus, ref, refvars, events, aspects_rows, eclipses,
                    wave_windows, wave_links, seen_event_ids, seen_aspect_ids,
                    seen_eclipse_ids, report >>

WavesEnd ==
    /\ pc = "waves" /\ Exhausted("waves", Len(waves_rows))
    /\ pc' = "eclipses"
    /\ UNCHANGED << focus, ref, refvars, tables, seen, problems, warnings, report >>

\* lines 261-277: the loop body for the next row of eclipses.csv
EclipsesRow ==
    /\ pc = "eclipses"
    /\ \E row \in Inputs("eclipses", Len(eclipses)) :
          LET i == Len(eclipses) + 2
          IN  /\ eclipses' = Append(eclipses, row)
              /\ problems' = problems \o EclipsesProblems(row, i)
              /\ seen_eclipse_ids' = Seen(strip(row.eclipse_id), seen_eclipse_ids)
    /\ UNCHANGED << focus, ref, pc, refvars, events, aspects_rows, waves_rows,
                    wave_windows, wave_links, seen_event_ids, seen_aspect_ids,
                    seen_wavetag_ids, warnings, report >>

EclipsesEnd ==
    /\ pc = "eclipses" /\ Exhausted("eclipses", Len(eclipses))
    /\ pc' = "wave_windows"
    /\ UNCHANGED << focus, ref, refvars, tables, seen, problems, warnings, report >>

\* lines 281-329: the loop body for the next row of wave_windows.csv
WaveWindowsRow ==
    /\ pc = "wave_windows"
    /\ \E row \in Inputs("wave_windows", Len(wave_windows)) :
          LET i == Len(wave_windows) + 2
          IN  /\ wave_windows' = Append(wave_windows, row)
              /\ IF WindowsCrashes(row)
                 THEN /\ problems' = problems \o WindowsHead(row, i)
                      /\ pc' = "crashed"
                 ELSE /\ problems' = problems \o WindowsProblems(row, i)
                      /\ pc' = pc
    /\ UNCHANGED << focus, ref, refvars, events, aspects_rows, waves_rows, eclipses,
                    wave_links, seen, warnings, report >>

WaveWindowsEnd ==
    /\ pc = "wave_windows" /\ Exhausted("wave_windows", Len(wave_windows))
    /\ pc' = "wave_links"
    /\ UNCHANGED << focus, ref, refvars, tables, seen, problems, warnings, report >>

\* lines 333-363: the loop body for the next row of wave_window_event_links.csv
WaveLinksRow ==
    /\ pc = "wave_links"
    /\ \E row \in Inputs("wave_links", Len(wave_links)) :
          LET i == Len(wave_links) + 2
          IN  /\ wave_links' = Append(wave_links, row)
              /\ problems' = problems \o LinksProblems(row, i)
              /\ warnings' = warnings \o LinksWarnings(row, i)
    /\ UNCHANGED << focus, ref, pc, refvars, events, aspects_rows, waves_rows, eclipses,
                    wave_windows, seen, report >>

WaveLinksEnd ==
    /\ pc = "wave_links" /\ Exhausted("wave_links", Len(wave_links))
    /\ pc' = "report"
    /\ UNCHANGED << focus, ref, refvars, tables, seen, problems, warnings, report >>

\* lines 366-377: the report is written
Report ==
    /\ pc = "report"
    /\ report' = WriteReport(problems, warnings)
    /\ pc' = "done"
    /\ UNCHANGED << focus, ref, refvars, tables, seen, problems, warnings >>

Next ==
    \/ LoadReference
    \/ EventsRow \/ EventsEnd
    \/ AspectsRow \/ AspectsEnd
    \/ WavesRow \/ WavesEnd
    \/ EclipsesRow \/ EclipsesEnd
    \/ WaveWindowsRow \/ WaveWindowsEnd
    \/ WaveLinksRow \/ WaveLinksEnd
    \/ Report

Spec == Init /\ [][Next]_vars

(***************************************************************************)
(* Properties.                                                             *)
(***************************************************************************)
Rows(t) ==
    IF t = "events" THEN events
    ELSE IF t = "aspects" THEN aspects_rows
    ELSE IF t = "waves" THEN waves_rows
    ELSE IF t = "eclipses" THEN eclipses
    ELSE IF t = "wave_windows" THEN wave_windows
    ELSE wave_links

File ==
    [ events |-> "events.csv", aspects |-> "aspects.csv", waves |-> "waves.csv",
      eclipses |-> "eclipses.csv", wave_windows |-> "wave_windows.csv",
      wave_links |-> "wave_window_event_links.csv" ]

IdField ==
    [ events |-> "event_id", aspects |-> "aspect_id", waves |-> "wave_tag_id",
      eclipses |-> "eclipse_id" ]

IdTables == { "events", "aspects", "waves", "eclipses" }

RefTables == { "aspects", "waves", "eclipses", "wave_links" }

\* how many diagnostics of list msgs table t's data row j (line j + 1) has
\* of a kind in kinds
CountAt(msgs, t, j, kinds) ==
    Cardinality({ k \in 1..Len(msgs) :
                    /\ msgs[k].file = File[t]
                    /\ msgs[k].line = j + 1
                    /\ msgs[k].kind \in kinds })

\* the identifier of table t's data row j
IdAt(t, j) == strip(Rows(t)[j][IdField[t]])

\* C2: in each identity-bearing table, the first row that carries a
\* non-empty identifier has no duplicate-id problem and every later row
\* that carries it has exactly one, at its own line (data row j is line
\* j + 1); so an identifier that occurs k times has k - 1 of them
C2_DuplicateIds ==
    \A t \in IdTables :
       /\ \A j \in 1..Len(Rows(t)) :
             IdAt(t, j) # "" =>
                CountAt(problems, t, j, { "duplicate id" })
                   = IF \E h \in 1..(j - 1) : IdAt(t, h) = IdAt(t, j) THEN 1 ELSE 0
       /\ \A j \in 1..Len(Rows(t)) :
             IdAt(t, j) # "" =>
                Cardinality({ k \in 1..Len(problems) :
                                /\ problems[k].file = File[t]
                                /\ problems[k].kind = "duplicate id"
                                /\ problems[k].args = << IdField[t], IdAt(t, j) >> })
                   = Cardinality({ h \in 1..Len(Rows(t)) : IdAt(t, h) = IdAt(t, j) }) - 1

\* an identifier read three times in one table: no duplicate at line 2, one
\* at line 3 and one at line 4
C2_Witness ==
    \E t \in IdTables :
       /\ Len(Rows(t)) = 3
       /\ IdAt(t, 1) # "" /\ IdAt(t, 2) = IdAt(t, 1) /\ IdAt(t, 3) = IdAt(t, 1)
       /\ CountAt(problems, t, 1, { "duplicate id" }) = 0
       /\ CountAt(problems, t, 2, { "duplicate id" }) = 1
       /\ CountAt(problems, t, 3, { "duplicate id" }) = 1

FkKinds == { "does not exist in events.csv", "not in events.csv" }

\* C3 as stated: a row of Aspects, Waves, Eclipses or Links has exactly one
\* foreign-key problem if its event_id is not among the identifiers
\* collected from Events, and none if it is
C3_Original ==
    \A t \in RefTables : \A j \in 1..Len(Rows(t)) :
       CountAt(problems, t, j, FkKinds)
          = IF strip(Rows(t)[j].event_id) \notin seen_event_ids THEN 1 ELSE 0

\* the state part of C3 as amended
C3_RowOutcome ==
    \A t \in RefTables : \A j \in 1..Len(Rows(t)) :
       LET eid == strip(Rows(t)[j].event_id)
       IN  /\ CountAt(problems, t, j, FkKinds)
                = IF eid # "" /\ eid \notin { strip(events[h].event_id) : h \in 1..Len(events) }
                  THEN 1 ELSE 0
           /\ CountAt(problems, t, j, { "does not exist in events.csv" })
                = IF t = "wave_links" THEN 0 ELSE CountAt(problems, t, j, FkKinds)

\* C3, amended: a row of Aspects, Waves, Eclipses or Links whose event_id is
\* non-empty and not among the identifiers of the Events table has exactly
\* one foreign-key problem ("does not exist in events.csv"; for a Links row
\* the text is "not in events.csv"); a row whose event_id is empty or among
\* them has none.  The lookup set changes only during the Events pass.
C3_ForeignKeys ==
    /\ [](C3_RowOutcome)
    /\ [][pc # "events" => seen_event_ids' = seen_event_ids]_vars

\* rows with an absent and with a present event_id have been judged in a
\* table that already holds another row
C3_Witness ==
    \E t \in RefTables \ { "wave_links" } :
       /\ Len(Rows(t)) = 3
       /\ strip(Rows(t)[2].event_id) = "e2" /\ "e2" \notin seen_event_ids
       /\ strip(Rows(t)[3].event_id) = "e1" /\ "e1" \in seen_event_ids
       /\ CountAt(problems, t, 2, FkKinds) = 1
       /\ CountAt(problems, t, 3, FkKinds) = 0

\* the wave definition the catalog gives for a waves.csv row, or JNull
\* when the row's wave_id does not resolve to an integer
RowWaveDef(row) ==
    LET n == ParseInt(normalize_wave_id(strip(row.wave_id)).value)
    IN  IF n.ok THEN Get(waves_ref, ToString(n.val), JNull) ELSE JNull

\* the run raised while it judged Waves data row j: the row's checks from
\* line 238 on were never made
AbortedAt(j) == pc = "crashed" /\ wave_windows = << >> /\ j = Len(waves_rows)

\* the anchor set of a wave definition
AnchorsOf(wave_def) == PySet(Get(wave_def, "anchors", JList(<< >>)))

\* the "anchor_deg not valid" problems of waves.csv data row j that list
\* the legal anchors of wave_def
NotValidAt(j, wave_def) ==
    Cardinality({ k \in 1..Len(problems) :
                    /\ problems[k].file = "waves.csv"
                    /\ problems[k].line = j + 1
                    /\ problems[k].kind = "anchor_deg not valid for wave_id"
                    /\ problems[k].args[3] = Sorted(AnchorsOf(wave_def)) })

C5_OrbTolerance ==
    \A j \in 1..Len(aspects_rows) :
       LET f  == ParseFloat(strip(aspects_rows[j].orb_deg))
           np == CountAt(problems, "aspects", j, { "orb_deg not a float", "orb > limit" })
           nw == CountAt(warnings, "aspects", j, { "orb_deg not a float", "orb > limit" })
       IN  /\ np + nw <= 1
           /\ f.kind = "err" =>
                 /\ CountAt(problems, "aspects", j, { "orb_deg not a float" }) = 1
                 /\ nw = 0
           /\ f.kind # "err" /\ FloatGT(f, orb_limit) =>
                 /\ CountAt(warnings, "aspects", j, { "orb > limit" }) = 1
                 /\ np = 0
           /\ f.kind # "err" /\ ~FloatGT(f, orb_limit) => np = 0 /\ nw = 0

\* with the tolerance 1.0, an orb of 1.5 has been judged: one warning, no
\* orb problem
C5_Witness ==
    /\ orb_limit = Fin(FALSE, 10, 1)
    /\ Len(aspects_rows) = 1 /\ aspects_rows[1].orb_deg = "1.5"
    /\ CountAt(warnings, "aspects", 1, { "orb > limit" }) = 1
    /\ CountAt(problems, "aspects", 1, { "orb_deg not a float", "orb > limit" }) = 0
    /\ pc = "done"

\* the tokens and spacings the dash-normalization property is stated over
Tokens == { "Saturn", "Pluto", "Jupiter", "saturn", "North Node", "X" }

Spacings == { "", " ", "  ", "\t" }

\* the joins of two tokens by a dash of the set dashes, with or without
\* whitespace around the dash, each paired with the en-dash join
DashJoins(dashes) ==
    { << a \o l \o d \o r \o b, a \o EN_DASH \o b >> :
          a \in Tokens, b \in Tokens, d \in dashes, l \in Spacings, r \in Spacings }

JoinsStated == DashJoins({ HYPHEN, NB_HYPHEN, EN_DASH, EM_DASH, MINUS_SIGN })

JoinsCoded == DashJoins({ HYPHEN, FIGURE_DASH, EN_DASH, EM_DASH, MINUS_SIGN })

KeysStated == { p[1] : p \in JoinsStated }

KeysCoded == { p[1] : p \in JoinsCoded }

\* the aspects.csv rows read so far whose cycle key is one of the joins all
\* take the en-dash join as their key, and match it when it is a canonical
\* cycle
RowsNormalize(joins, keys) ==
    \A j \in 1..Len(aspects_rows) :
       LET key == strip(aspects_rows[j].cycle_key)
       IN  key \in keys =>
              LET joined == (CHOOSE p \in joins : p[1] = key)[2]
              IN  joined \in cycles_ref
                  => /\ canonical_cycle(key, cycles_ref).value = joined
                     /\ CountAt(problems, "aspects", j,
                                { "cycle_key not in reference.json cycles" }) = 0

\* C6 as stated: a cycle key of two tokens joined by a hyphen, a
\* non-breaking hyphen, an en dash, an em dash or a minus sign, with or
\* without spaces around it, normalizes to the tokens joined by one en dash
\* and matches that canonical cycle key
C6_Original == RowsNormalize(JoinsStated, KeysStated)

\* every join the code's dashes make normalizes to the en-dash join
C6_Pure == \A p \in JoinsCoded : normalize_dashes(p[1]) = p[2]

\* C6, amended: a cycle key of two tokens joined by a hyphen-minus, a figure
\* dash (U+2012), an en dash, an em dash or a minus sign, with or without
\* whitespace around the dash, normalizes to the two tokens joined by one en
\* dash, and so matches that canonical cycle key; the non-breaking hyphen
\* (U+2011) is not among the dashes normalized
C6_DashNormalization ==
    /\ C6_Pure
    /\ RowsNormalize(JoinsCoded, KeysCoded)
    /\ normalize_dashes("Saturn" \o NB_HYPHEN \o "Pluto") = "Saturn" \o NB_HYPHEN \o "Pluto"

\* a row whose cycle key joins Saturn and Pluto by a spaced minus sign has
\* been read, normalized with one advisory and matched
C6_Witness ==
    /\ Len(aspects_rows) = 1
    /\ aspects_rows[1].cycle_key = "Saturn " \o MINUS_SIGN \o "  Pluto"
    /\ Cyc("Saturn", "Pluto") \in cycles_ref
    /\ CountAt(warnings, "aspects", 1, { "cycle_key normalized" }) = 1
    /\ CountAt(problems, "aspects", 1, { "cycle_key not in reference.json cycles" }) = 0
    /\ pc = "done"

\* the date shape of the claim: three dash-separated components of widths
\* 4, 2 and 2, all digits, the month in 1..12 and the day in 1..31
AllDigits(s) == \A k \in 1..Len(s) : IsDigit(Ch(s, k))

IsoShape(s) ==
    LET parts == split(s, "-")
    IN  /\ Len(parts) = 3
        /\ Len(parts[1]) = 4 /\ Len(parts[2]) = 2 /\ Len(parts[3]) = 2
        /\ AllDigits(parts[1]) /\ AllDigits(parts[2]) /\ AllDigits(parts[3])
        /\ DigitsVal(parts[2], 0) \in 1..12
        /\ DigitsVal(parts[3], 0) \in 1..31

\* C7: the date check accepts a string if and only if it has exactly three
\* dash-separated components of widths 4, 2 and 2, each numeric, the month
\* in [1,12] and the day in [1,31]: an Events row has no "bad date" problem
\* exactly when its date has that shape
C7_DateShape ==
    \A j \in 1..Len(events) :
       (CountAt(problems, "events", j, { "bad date" }) = 0)
          <=> IsoShape(strip(events[j].date))

\* C8: a reference document that lacks a required top-level key, or holds a
\* mistyped value for one, makes the load fail: no row is read, no
\* diagnostic is raised and no report is written
Required(r, key, types) == key \in DOMAIN r.v /\ r.v[key].t \in types

WellFormed(r) ==
    /\ r.t = "obj"
    /\ \A key \in EnumKeys : Required(r, key, { "list" })
    /\ Required(r, "waves", { "obj" })
    /\ Required(r, "rules", { "obj" })
    /\ Required(r.v["rules"], "orb_deg_exact_window", { "num" })

C8_MalformedAborts ==
    ~WellFormed(ref) =>
       /\ pc \in { "load", "aborted" }
       /\ \A t \in DOMAIN File : Rows(t) = << >>
       /\ problems = << >> /\ warnings = << >>
       /\ report = << >>

\* the position of a table in the processing order
TableOrder ==
    << "events", "aspects", "waves", "eclipses", "wave_windows", "wave_links" >>

Pos(t) == CHOOSE k \in 1..6 : TableOrder[k] = t

FilePos(file) == CHOOSE k \in 1..6 : File[TableOrder[k]] = file

\* the tables whose pass has begun: those up to the one pc names
PcPos ==
    IF pc \in { "load", "aborted" } THEN 0
    ELSE IF pc \in { "report", "done" } THEN 6
    ELSE IF pc = "crashed" THEN 6
    ELSE Pos(pc)

\* message a comes no later than message b in row-processing order
InOrder(a, b) ==
    \/ FilePos(a.file) < FilePos(b.file)
    \/ FilePos(a.file) = FilePos(b.file) /\ a.line <= b.line

Ordered(msgs) == \A x \in 1..Len(msgs), y \in 1..Len(msgs) : x < y => InOrder(msgs[x], msgs[y])

\* C9: in the report every ERROR row precedes every WARN row and within a
\* level the messages are in row-processing order (tables in the fixed
\* order, lines ascending); no row of a later table is read before the last
\* row of an earlier table
C9_ReportOrder ==
    /\ \A t \in DOMAIN File : Pos(t) > PcPos => Rows(t) = << >>
    /\ Ordered(problems) /\ Ordered(warnings)
    /\ \A k \in 1..Len(problems) :
          /\ FilePos(problems[k].file) <= PcPos
          /\ problems[k].line <= Len(Rows(TableOrder[FilePos(problems[k].file)])) + 1
    /\ pc = "done" =>
          /\ Len(report) = Len(problems) + Len(warnings)
          /\ \A x \in 1..Len(report), y \in 1..Len(report) :
                x < y =>
                   /\ ~(report[x][1] = "WARN" /\ report[y][1] = "ERROR")
                   /\ report[x][1] = report[y][1] => InOrder(report[x][2], report[y][2])
          /\ \A k \in 1..Len(problems) : report[k] = << "ERROR", problems[k] >>
          /\ \A k \in 1..Len(warnings) : report[Len(problems) + k] = << "WARN", warnings[k] >>

\* a report with errors of two tables and of two lines of one table, and
\* with warnings of two tables and of two lines of one table
C9_Witness ==
    /\ pc = "done"
    /\ \E x, y, z \in 1..Len(problems) :
          /\ x < y /\ y < z
          /\ problems[x].file = problems[y].file /\ problems[x].line < problems[y].line
          /\ problems[y].file # problems[z].file
    /\ \E x, y, z \in 1..Len(warnings) :
          /\ x < y /\ y < z
          /\ warnings[x].file = warnings[y].file /\ warnings[x].line < warnings[y].line
          /\ warnings[y].file # warnings[z].file
    /\ report[1][1] = "ERROR" /\ report[Len(report)][1] = "WARN"

\* C10: a Waves row with a non-empty anchor_sign has no anchor_sign problem
\* if and only if the anchor_sign is a canonical sign or a slash-delimited
\* token of exactly two signs
C10_AnchorSign ==
    \A j \in 1..Len(waves_rows) :
       LET anchor_sign == strip(waves_rows[j].anchor_sign)
           parts       == split(anchor_sign, "/")
       IN  anchor_sign # "" =>
              ((CountAt(problems, "waves", j, { "anchor_sign not in reference.json signs" }) = 0)
                 <=> \/ anchor_sign \in signs_ref
                     \/ Len(parts) = 2 /\ parts[1] \in signs_ref /\ parts[2] \in signs_ref)

\* the one- and two-digit numerals
Numerals ==
    { Ch(DIGITS, a) : a \in 1..10 } \cup { Ch(DIGITS, a) \o Ch(DIGITS, b) : a, b \in 1..10 }

\* C1: once the Catalog is loaded, normalizing a member of the canonical
\* set passed in (for wave id: a bare one- or two-digit numeral) returns it
\* unchanged with no advisory, in every class
C1_Idempotent ==
    pc \notin { "load", "aborted" } =>
       /\ \A v \in categories_ref : normalize_category(v, categories_ref) = Result(v, << >>)
       /\ \A v \in aspects_ref : normalize_aspect(v, aspects_ref) = Result(v, << >>)
       /\ \A v \in signs_ref : normalize_sign(v, signs_ref) = Result(v, << >>)
       /\ \A v \in planets_ref : normalize_planet(v, planets_ref) = Result(v, << >>)
       /\ \A v \in cycles_ref : canonical_cycle(v, cycles_ref) = Result(v, << >>)
       /\ \A v \in Numerals : normalize_wave_id(v) = Result(v, << >>)

\* what the strength field of Links data row j yields: the warnings of the
\* strength check, the "missing strength" problems and the other problems
\* that name the field or its value
StrengthOf(j) == strip(wave_links[j].strength)

StrengthWarnings(j) ==
    CountAt(warnings, "wave_links", j, { "strength not numeric and not in link_strengths" })

StrengthMissing(j) ==
    Cardinality({ k \in 1..Len(problems) :
                    /\ problems[k].file = File["wave_links"]
                    /\ problems[k].line = j + 1
                    /\ problems[k].kind = "missing field"
                    /\ problems[k].args = << "strength" >> })

\* the kinds of problem a Links row has for its other fields
LinkKinds == { "missing field", "not in events.csv", "wave_id not int",
               "relation not in window_relations" }

StrengthOtherProblems(j) ==
    Cardinality({ k \in 1..Len(problems) :
                    /\ problems[k].file = File["wave_links"]
                    /\ problems[k].line = j + 1
                    /\ problems[k].kind \notin LinkKinds })

Numeric(s) == ParseFloat(s).kind # "err"

\* C11 as stated: a Links row's strength has no diagnostic when it is
\* numeric or in link_strengths, and any other value has one warning and
\* never a problem
C11_Original ==
    \A j \in 1..Len(wave_links) :
       /\ StrengthWarnings(j)
             = IF Numeric(StrengthOf(j)) \/ StrengthOf(j) \in link_strengths THEN 0 ELSE 1
       /\ StrengthMissing(j) = 0
       /\ StrengthOtherProblems(j) = 0

\* C11, amended: a Links row's non-empty strength has no diagnostic when it
\* is numeric (anything float() reads, nan and inf included) or a member of
\* link_strengths, which may be empty, and exactly one warning and no
\* problem otherwise; an empty strength has no warning and exactly one
\* "missing strength" problem
C11_StrengthTolerance ==
    \A j \in 1..Len(wave_links) :
       /\ StrengthWarnings(j)
             = IF StrengthOf(j) = "" \/ Numeric(StrengthOf(j))
                  \/ StrengthOf(j) \in link_strengths
               THEN 0 ELSE 1
       /\ StrengthMissing(j) = IF StrengthOf(j) = "" THEN 1 ELSE 0
       /\ StrengthOtherProblems(j) = 0

\* a Links row whose strength "strong" is in link_strengths has been judged:
\* no warning and no problem for the field
C11_Witness ==
    /\ Len(wave_links) = 1
    /\ StrengthOf(1) = "strong" /\ "strong" \in link_strengths
    /\ StrengthWarnings(1) = 0 /\ StrengthMissing(1) = 0
    /\ pc = "done"

\* C12: once the Catalog has loaded, whatever the rows hold, no row aborts
\* the run: the run is never stopped by an exception a row raised, and the
\* report, once written, holds every accumulated diagnostic
C12_RunCompletes ==
    /\ pc # "crashed"
    /\ pc = "done" => Len(report) = Len(problems) + Len(warnings)

=============================================================================
